---------------------------- MODULE Spec2Model ----------------------------
(***************************************************************************)
(* A model of the RAG index build and query scripts:                       *)
(*   build_index/build_db.py   parseDict, build_rag_database               *)
(*   build_index/embedding.py  get_embedding                               *)
(*   build_index/push_cloud.py the Qdrant query client                     *)
(*                                                                         *)
(* Texts are sequences of characters.  A character is a one-element token: *)
(* a CJK character of the source is written as its pinyin syllable, the    *)
(* full-width colon as "COLON", the ideographic full stop as "STOP" and    *)
(* the line feed as "LF".  Dictionary keys and course-type labels, which   *)
(* the code only ever compares as wholes, are atomic strings in pinyin.    *)
(***************************************************************************)
EXTENDS Naturals, Sequences, FiniteSets

VARIABLES
    \* ---- build_rag_database (build_db.py) ----
    csvExists,      \* os.path.exists(csv_path)
    csvEncoding,    \* the encoding the bytes of the CSV file decode under
    csvRows,        \* the rows the CSV file decodes to, in file order
    embedding_dim,  \* the embedding_dim argument
    pc,             \* position of the run inside build_rag_database
    df,             \* the loaded data frame, as its sequence of row dicts
    i,              \* number of completed iterations of the build loop
    embeddings,     \* the list embeddings
    metadata,       \* the list metadata
    embeddings_np,  \* np.vstack(embeddings)
    index,          \* the faiss.IndexFlatL2 object
    err,            \* the exception that ended the run
    embedCalls,     \* number of calls of get_embedding so far
    dirExists,      \* whether db_path exists
    faissFile,      \* content of {db_path}/faiss.index
    metaFile,       \* content of {db_path}/metadata.json
    faissFile0,     \* content of faiss.index when the run started
    metaFile0,      \* content of metadata.json when the run started
    reported,       \* the count printed on completion
    \* ---- the query client (push_cloud.py) ----
    qpc,            \* position of the script
    localIndex,     \* what faiss.read_index("faiss.index") finds
    query_vector,   \* the reconstructed query vector
    results,        \* what client.search returned
    searchCalls,    \* number of calls of client.search
    shown,          \* the result entries printed so far
    qerr,           \* the RuntimeError that ended the run
    \* ---- parseDict applied to one row ----
    nrow,           \* the row given to parseDict
    nout            \* what parseDict returned

buildVars == <<csvExists, csvEncoding, csvRows, embedding_dim, pc, df, i,
               embeddings, metadata, embeddings_np, index, err, embedCalls,
               dirExists, faissFile, metaFile, faissFile0, metaFile0, reported>>
queryVars == <<qpc, localIndex, query_vector, results, searchCalls, shown, qerr>>
normVars  == <<nrow, nout>>
vars      == <<buildVars, queryVars, normVars>>

-----------------------------------------------------------------------------
(* Characters and strings *)

LF    == "LF"
COLON == "COLON"
STOP  == "STOP"

\* the concatenation of a sequence of strings
RECURSIVE Concat(_)
Concat(ss) == IF ss = <<>> THEN <<>> ELSE Head(ss) \o Concat(Tail(ss))

\* A missing cell of the CSV file reaches parseDict as the float NaN.
NaN == <<"float:nan">>

\* str(v), as str.format applies it to its arguments
Str(v) == IF v = NaN THEN <<"n", "a", "n">> ELSE v

-----------------------------------------------------------------------------
(* build_db.py: constants *)

\* The literal pieces of QUERY_FMT around its six replacement fields.
QUERY_FMT ==
    << <<"ke", "cheng", "ming", "cheng", COLON>>,
       <<STOP, LF, "shou", "ke", "jiao", "shi", COLON>>,
       <<STOP, LF, "ke", "cheng", "nei", "rong", "yu", "ping", "jia", COLON>>,
       <<STOP, LF, "kao", "qin", "yu", "ping", "shi", "zuo", "ye", COLON>>,
       <<STOP, LF, "qi", "mo", "kao", "he", "fang", "shi", COLON>>,
       <<STOP, LF, "ping", "jia", "tian", "xie", "ren", "cheng", "ji", COLON>>,
       <<STOP>> >>

\* QUERY_FMT.format(a1, ..., a6)
Format(fmt, args) ==
    Concat([k \in 1..(2 * Len(args) + 1) |->
              IF k % 2 = 1 THEN fmt[(k + 1) \div 2] ELSE Str(args[k \div 2])])

\* The keys of a row (the CSV column names).
KeChengMingCheng        == "KeChengMingCheng"
ShouKeLaoShi            == "ShouKeLaoShi"
KeChengNeiRongYuPingJia == "KeChengNeiRongYuPingJia"
KaoQinYuPingShiZuoYe    == "KaoQinYuPingShiZuoYe"
QiMoKaoHeFangShi        == "QiMoKaoHeFangShi"
KeChengChengJi          == "KeChengChengJi"
KeChengShuXing          == "KeChengShuXing"

\* The six keys parseDict formats, in the order of the template's fields.
TextKeys == <<KeChengMingCheng, ShouKeLaoShi, KeChengNeiRongYuPingJia,
              KaoQinYuPingShiZuoYe, QiMoKaoHeFangShi, KeChengChengJi>>

\* COURSE_TYPE_TO_CLASS, as the set of its (label, code) items.
COURSE_TYPE_TO_CLASS ==
    { <<"BuZhiDing", 0>>,
      <<"TiYuKe", 1>>,
      <<"TongShiXuanXiuKe(GongXuanKe)", 2>>,
      <<"GongGongKe", 3>>,
      <<"GongGongKe(GaoShu,XianDai,DaWuHeSiZhengKeDeng)", 3>>,
      <<"GongGongBiXiuKe(GaoShu,XianDai,DaWuHeSiZhengKeDeng)", 3>>,
      <<"ZhuanYeKeCheng", 4>>,
      <<"TongShiBiXiuKe(DaoYinKe)", 5>>,
      <<"TongShiBiXiuKe(DaoYin)", 5>>,
      <<"DaoYinKe(ZiKeRenWenZhongGuoJingShen)", 5>>,
      <<"YingYuKe", 6>> }

KnownLabels == { it[1] : it \in COURSE_TYPE_TO_CLASS }

\* d.get(key, default) for a dict given as its set of items
ItemsGet(d, key, default) ==
    IF \E it \in d : it[1] = key
    THEN (CHOOSE it \in d : it[1] = key)[2]
    ELSE default

\* row.get(key, default) for a row, a function from its keys
RowGet(row, key, default) ==
    IF key \in DOMAIN row THEN row[key] ELSE default


-----------------------------------------------------------------------------
(* build_db.py: parseDict *)

\* parseDict with the teacher and the grade arguments exchanged
parseDict_swapped(row) ==
    << Format(QUERY_FMT,
              << RowGet(row, KeChengMingCheng, <<>>),
                 RowGet(row, KeChengChengJi, <<>>),
                 RowGet(row, KeChengNeiRongYuPingJia, <<>>),
                 RowGet(row, KaoQinYuPingShiZuoYe, <<>>),
                 RowGet(row, QiMoKaoHeFangShi, <<>>),
                 RowGet(row, ShouKeLaoShi, <<>>) >>),
       ItemsGet(COURSE_TYPE_TO_CLASS, RowGet(row, KeChengShuXing, "BuZhiDing"), 0) >>

\* parseDict falling back to the code of the professional courses
parseDict_default4(row) ==
    << Format(QUERY_FMT,
              << RowGet(row, KeChengMingCheng, <<>>),
                 RowGet(row, ShouKeLaoShi, <<>>),
                 RowGet(row, KeChengNeiRongYuPingJia, <<>>),
                 RowGet(row, KaoQinYuPingShiZuoYe, <<>>),
                 RowGet(row, QiMoKaoHeFangShi, <<>>),
                 RowGet(row, KeChengChengJi, <<>>) >>),
       ItemsGet(COURSE_TYPE_TO_CLASS, RowGet(row, KeChengShuXing, "BuZhiDing"), 4) >>

\* parseDict(row): the tuple (formatted_text, class_id)
parseDict(row) ==
    LET formatted_text ==
            Format(QUERY_FMT,
                   << RowGet(row, KeChengMingCheng, <<>>),
                      RowGet(row, ShouKeLaoShi, <<>>),
                      RowGet(row, KeChengNeiRongYuPingJia, <<>>),
                      RowGet(row, KaoQinYuPingShiZuoYe, <<>>),
                      RowGet(row, QiMoKaoHeFangShi, <<>>),
                      RowGet(row, KeChengChengJi, <<>>) >>)
        course_type == RowGet(row, KeChengShuXing, "BuZhiDing")
        class_id    == ItemsGet(COURSE_TYPE_TO_CLASS, course_type, 0)
    IN  <<formatted_text, class_id>>

-----------------------------------------------------------------------------
(* The rows parseDict is applied to *)

\* A course-type label that is no key of COURSE_TYPE_TO_CLASS.
UnknownLabel == "XuanXiuKe"
NaNLabel     == "float:nan"

\* The values a text cell takes: empty, a string holding a line feed, a
\* missing cell.
CellValues == { <<>>, <<"a", LF, "b">>, NaN }

\* The values the course-type cell takes.
TypeValues == KnownLabels \cup {UnknownLabel, NaNLabel}

\* The rows with the text keys in tk and, when hasType, the course type.
RowsOver(tk, hasType) ==
    IF hasType
    THEN UNION { { [k \in tk \cup {KeChengShuXing} |->
                      IF k = KeChengShuXing THEN t ELSE f[k]] : t \in TypeValues }
                 : f \in [tk -> CellValues] }
    ELSE [tk -> CellValues]

\* The sets of text keys tried: none, each alone, each missing alone, all.
AllTextKeys == { TextKeys[k] : k \in 1..Len(TextKeys) }
KeySets == { {}, AllTextKeys }
           \cup { {k} : k \in AllTextKeys }
           \cup { AllTextKeys \ {k} : k \in AllTextKeys }

-----------------------------------------------------------------------------
(* embedding.py: get_embedding *)

\* The length of the dense vectors of BGE-M3.
ModelDim == 1024

\* The lengths a dense vector of the loaded model may have: the provider is
\* external, and build_rag_database never looks at the length itself.
VecLens == {ModelDim, ModelDim \div 2}

\* The outcomes of get_embedding(text, dim): model.encode raises, or the
\* dense vector of the text is returned; dim is not used.
get_embedding(text, dim) ==
    { [raised |-> TRUE, vec |-> [of |-> text, len |-> 0]] }
    \cup { [raised |-> FALSE, vec |-> [of |-> text, len |-> L]] : L \in VecLens }

-----------------------------------------------------------------------------
(* build_db.py: build_rag_database *)

\* The default of the embedding_dim parameter.
EmbeddingDimDefault == 1024

\* The values of embedding_dim tried: the default and another one.
Dims == {EmbeddingDimDefault, EmbeddingDimDefault \div 2}

\* The longest CSV file tried, in rows.
MaxRows == 3

\* The rows of the CSV files tried (row.to_dict() holds every column):
\* a professional course, a sports course with its other cells missing,
\* and a row of missing cells only.
BuildRows ==
    { [k \in AllTextKeys \cup {KeChengShuXing} |->
         IF k = KeChengShuXing THEN "ZhuanYeKeCheng"
         ELSE IF k = KeChengMingCheng THEN <<"j", "w">>
         ELSE IF k = ShouKeLaoShi THEN <<"z", "s">>
         ELSE <<"a", LF, "b">>],
      [k \in AllTextKeys \cup {KeChengShuXing} |->
         IF k = KeChengShuXing THEN "TiYuKe"
         ELSE IF k = KeChengMingCheng THEN <<"t", "y">>
         ELSE NaN],
      [k \in AllTextKeys \cup {KeChengShuXing} |->
         IF k = KeChengShuXing THEN NaNLabel ELSE NaN] }

RECURSIVE SeqsUpTo(_, _)
SeqsUpTo(S, n) ==
    IF n = 0 THEN { <<>> }
    ELSE LET shorter == SeqsUpTo(S, n - 1)
         IN  shorter \cup { Append(q, x) : q \in { t \in shorter : Len(t) = n - 1 }, x \in S }

\* The content of a file of the output directory.
Absent     == [state |-> "absent",   data |-> <<>>]
Previous   == [state |-> "previous", data |-> <<>>]
Partial    == [state |-> "partial",  data |-> <<>>]
Written(d) == [state |-> "written",  data |-> d]

\* No faiss index object yet.
NoIndex == [constructed |-> FALSE, d |-> 0, vecs |-> <<>>]

\* The dict appended to metadata for one record.
MetadataEntry(text, category) == [text |-> text, category |-> category]

BuildInit ==
    /\ csvExists \in BOOLEAN
    /\ csvEncoding \in {"gbk", "utf-8", "other"}
    /\ csvRows \in SeqsUpTo(BuildRows, MaxRows)
    /\ embedding_dim \in Dims
    /\ pc = "start"
    /\ df = <<>>
    /\ i = 0
    /\ embeddings = <<>>
    /\ metadata = <<>>
    /\ embeddings_np = <<>>
    /\ index = NoIndex
    /\ err = "none"
    /\ embedCalls = 0
    /\ dirExists \in BOOLEAN
    /\ faissFile \in (IF dirExists THEN {Absent, Previous} ELSE {Absent})
    /\ metaFile \in (IF dirExists THEN {Absent, Previous} ELSE {Absent})
    /\ faissFile0 = faissFile
    /\ metaFile0 = metaFile
    /\ reported = 0

\* The run ends with the exception e.
Raise(e) == pc' = "failed" /\ err' = e

\* if not os.path.exists(csv_path): raise FileNotFoundError
CheckCsv ==
    /\ pc = "start"
    /\ IF csvExists THEN pc' = "read" /\ err' = err
       ELSE Raise("FileNotFoundError")
    /\ UNCHANGED <<csvExists, csvEncoding, csvRows, embedding_dim, df, i,
                   embeddings, metadata, embeddings_np, index, embedCalls,
                   dirExists, faissFile, metaFile, faissFile0, metaFile0, reported>>
    /\ UNCHANGED <<queryVars, normVars>>

\* pd.read_csv as gbk, then as utf-8; the two lists start empty
ReadCsv ==
    /\ pc = "read"
    /\ IF csvEncoding = "gbk" \/ csvEncoding = "utf-8"
       THEN df' = csvRows /\ pc' = "loop" /\ err' = err
       ELSE df' = df /\ Raise("UnicodeDecodeError")
    /\ embeddings' = <<>>
    /\ metadata' = <<>>
    /\ UNCHANGED <<csvExists, csvEncoding, csvRows, embedding_dim, i,
                   embeddings_np, index, embedCalls,
                   dirExists, faissFile, metaFile, faissFile0, metaFile0, reported>>
    /\ UNCHANGED <<queryVars, normVars>>

\* What one iteration leaves alone.
LoopFrame ==
    /\ UNCHANGED <<csvExists, csvEncoding, csvRows, embedding_dim, df,
                   embeddings_np, index,
                   dirExists, faissFile, metaFile, faissFile0, metaFile0, reported>>
    /\ UNCHANGED <<queryVars, normVars>>

\* The loop body inserting the metadata at the front of its list
LoopBody_prepend ==
    /\ pc = "loop"
    /\ i < Len(df)
    /\ LET row_dict == df[i + 1]
           text     == parseDict(row_dict)[1]
           category == parseDict(row_dict)[2]
       IN  \E r \in get_embedding(text, embedding_dim) :
             /\ embedCalls' = embedCalls + 1
             /\ IF r.raised
                THEN /\ Raise("EmbeddingFailure")
                     /\ UNCHANGED <<i, embeddings, metadata>>
                ELSE /\ embeddings' = Append(embeddings, r.vec)
                     /\ metadata' = <<MetadataEntry(text, category)>> \o metadata
                     /\ i' = i + 1
                     /\ UNCHANGED <<pc, err>>
    /\ LoopFrame

\* The loop body going on to the next record when get_embedding raises
LoopBody_skip ==
    /\ pc = "loop"
    /\ i < Len(df)
    /\ LET row_dict == df[i + 1]
           text     == parseDict(row_dict)[1]
           category == parseDict(row_dict)[2]
       IN  \E r \in get_embedding(text, embedding_dim) :
             /\ embedCalls' = embedCalls + 1
             /\ IF r.raised
                THEN /\ err' = "EmbeddingFailure"
                     /\ i' = i + 1
                     /\ UNCHANGED <<pc, embeddings, metadata>>
                ELSE /\ embeddings' = Append(embeddings, r.vec)
                     /\ metadata' = Append(metadata, MetadataEntry(text, category))
                     /\ i' = i + 1
                     /\ UNCHANGED <<pc, err>>
    /\ LoopFrame

\* One iteration of the build loop: parseDict, get_embedding, the two appends.
\* An exception of get_embedding leaves the function before either append.
LoopBody ==
    /\ pc = "loop"
    /\ i < Len(df)
    /\ LET row_dict == df[i + 1]
           text     == parseDict(row_dict)[1]
           category == parseDict(row_dict)[2]
       IN  \E r \in get_embedding(text, embedding_dim) :
             /\ embedCalls' = embedCalls + 1
             /\ IF r.raised
                THEN /\ Raise("EmbeddingFailure")
                     /\ UNCHANGED <<i, embeddings, metadata>>
                ELSE /\ embeddings' = Append(embeddings, r.vec)
                     /\ metadata' = Append(metadata, MetadataEntry(text, category))
                     /\ i' = i + 1
                     /\ UNCHANGED <<pc, err>>
    /\ LoopFrame

\* Whether the arrays of a list all have one length.
SameLen(vs) == \A a, b \in 1..Len(vs) : vs[a].len = vs[b].len

\* np.vstack(embeddings).astype("float32"), once the loop is over: it raises
\* ValueError for an empty list and for arrays of different lengths.
VStack ==
    /\ pc = "loop"
    /\ i = Len(df)
    /\ IF embeddings = <<>>
       THEN Raise("ValueError:need at least one array") /\ embeddings_np' = embeddings_np
       ELSE IF ~SameLen(embeddings)
       THEN Raise("ValueError:dimension mismatch") /\ embeddings_np' = embeddings_np
       ELSE embeddings_np' = embeddings /\ pc' = "index" /\ err' = err
    /\ UNCHANGED <<csvExists, csvEncoding, csvRows, embedding_dim, df, i,
                   embeddings, metadata, index, embedCalls,
                   dirExists, faissFile, metaFile, faissFile0, metaFile0, reported>>
    /\ UNCHANGED <<queryVars, normVars>>

\* index = faiss.IndexFlatL2(embedding_dim)
NewIndex ==
    /\ pc = "index"
    /\ index' = [constructed |-> TRUE, d |-> embedding_dim, vecs |-> <<>>]
    /\ pc' = "add"
    /\ UNCHANGED <<csvExists, csvEncoding, csvRows, embedding_dim, df, i,
                   embeddings, metadata, embeddings_np, err, embedCalls,
                   dirExists, faissFile, metaFile, faissFile0, metaFile0, reported>>
    /\ UNCHANGED <<queryVars, normVars>>

\* index.add(embeddings_np): faiss asserts that the rows have index.d columns
IndexAdd ==
    /\ pc = "add"
    /\ IF embeddings_np[1].len # index.d
       THEN Raise("AssertionError:d") /\ index' = index
       ELSE index' = [index EXCEPT !.vecs = index.vecs \o embeddings_np]
            /\ pc' = "makedirs" /\ err' = err
    /\ UNCHANGED <<csvExists, csvEncoding, csvRows, embedding_dim, df, i,
                   embeddings, metadata, embeddings_np, embedCalls,
                   dirExists, faissFile, metaFile, faissFile0, metaFile0, reported>>
    /\ UNCHANGED <<queryVars, normVars>>

\* os.makedirs writing the metadata before the index is saved
MakeDirs_metaFirst ==
    /\ pc = "makedirs"
    /\ dirExists' = TRUE
    /\ metaFile' = Written(metadata)
    /\ pc' = "write_index"
    /\ UNCHANGED <<csvExists, csvEncoding, csvRows, embedding_dim, df, i,
                   embeddings, metadata, embeddings_np, index, embedCalls, err,
                   faissFile, faissFile0, metaFile0, reported>>
    /\ UNCHANGED <<queryVars, normVars>>

\* os.makedirs(db_path, exist_ok=True): an existing directory is no error; a
\* directory that cannot be created is an OSError
MakeDirs ==
    /\ pc = "makedirs"
    /\ \/ dirExists' = TRUE /\ pc' = "write_index" /\ err' = err
       \/ ~dirExists /\ dirExists' = dirExists /\ Raise("OSError:makedirs")
    /\ UNCHANGED <<csvExists, csvEncoding, csvRows, embedding_dim, df, i,
                   embeddings, metadata, embeddings_np, index, embedCalls,
                   faissFile, metaFile, faissFile0, metaFile0, reported>>
    /\ UNCHANGED <<queryVars, normVars>>

\* faiss.write_index(index, .../faiss.index): the file is written, or the
\* write fails before the file is opened or while it is being written
WriteIndex ==
    /\ pc = "write_index"
    /\ \/ faissFile' = Written(index.vecs) /\ pc' = "write_meta" /\ err' = err
       \/ faissFile' = faissFile /\ Raise("OSError:faiss.index")
       \/ faissFile' = Partial /\ Raise("OSError:faiss.index")
    /\ UNCHANGED <<csvExists, csvEncoding, csvRows, embedding_dim, df, i,
                   embeddings, metadata, embeddings_np, index, embedCalls,
                   dirExists, metaFile, faissFile0, metaFile0, reported>>
    /\ UNCHANGED <<queryVars, normVars>>

\* with open(.../metadata.json, "w") as f: json.dump(metadata, f): open fails
\* and leaves the file alone; open creates or truncates the file, and then
\* json.dump writes the list or fails on the way
WriteMeta ==
    /\ pc = "write_meta"
    /\ \/ metaFile' = Written(metadata) /\ pc' = "report" /\ err' = err
       \/ metaFile' = metaFile /\ Raise("OSError:open metadata.json")
       \/ metaFile' = Partial /\ Raise("OSError:json.dump")
    /\ UNCHANGED <<csvExists, csvEncoding, csvRows, embedding_dim, df, i,
                   embeddings, metadata, embeddings_np, index, embedCalls,
                   dirExists, faissFile, faissFile0, metaFile0, reported>>
    /\ UNCHANGED <<queryVars, normVars>>

\* The closing prints, the last of them len(embeddings)
Report ==
    /\ pc = "report"
    /\ reported' = Len(embeddings)
    /\ pc' = "done"
    /\ UNCHANGED <<csvExists, csvEncoding, csvRows, embedding_dim, df, i,
                   embeddings, metadata, embeddings_np, index, err, embedCalls,
                   dirExists, faissFile, metaFile, faissFile0, metaFile0>>
    /\ UNCHANGED <<queryVars, normVars>>

-----------------------------------------------------------------------------
(* push_cloud.py: the query client *)

\* limit=3 of client.search
Limit == 3

\* The length of the preview, text_snippet[:120].
PreviewLen == 120

NoError == [type |-> "none", cause |-> "none"]

\* raise RuntimeError(f"...{e}") inside the except clause of exception e
RuntimeError(e) == [type |-> "RuntimeError", cause |-> e]

\* The default of payload.get("text", ...), seven characters.
NoTextPlaceholder == <<"(", "wu", "wen", "ben", "nei", "rong", ")">>

\* The default of payload.get("catagory", ...), three characters.
Uncategorized == <<"wei", "fen", "lei">>

\* str(n) of a one-digit integer, as the f-string prints a category
Digits == <<"0", "1", "2", "3", "4", "5", "6", "7", "8", "9">>
IntStr(n) == <<Digits[n + 1]>>

\* s[:n]
Slice(s, n) == SubSeq(s, 1, IF n < Len(s) THEN n ELSE Len(s))

\* s.replace(old, new) for single characters
Replace(s, old, new) == [k \in 1..Len(s) |-> IF s[k] = old THEN new ELSE s[k]]

\* The preview adding its marker from 120 characters on
Snippet_ge(text_snippet) ==
    LET snippet == Replace(Slice(text_snippet, PreviewLen), LF, " ")
    IN  IF Len(text_snippet) >= PreviewLen
        THEN snippet \o <<".", ".", ".">>
        ELSE snippet

\* snippet = text_snippet[:120].replace("\n", " "), and "..." appended to it
\* if len(text_snippet) > 120
Snippet(text_snippet) ==
    LET snippet == Replace(Slice(text_snippet, PreviewLen), LF, " ")
    IN  IF Len(text_snippet) > PreviewLen
        THEN snippet \o <<".", ".", ".">>
        ELSE snippet

\* What the loop prints for result number idx: payload = result.payload or {},
\* the two payload.get calls, the snippet
ShowResult(idx, result) ==
    LET payload      == result.payload
        text_snippet == IF "text" \in DOMAIN payload
                        THEN payload["text"] ELSE NoTextPlaceholder
        category     == IF "catagory" \in DOMAIN payload
                        THEN IntStr(payload["catagory"]) ELSE Uncategorized
    IN  [idx |-> idx, category |-> category, snippet |-> Snippet(text_snippet)]

\* The length of the template with its six fields empty.
TemplateLen == Len(Format(QUERY_FMT, <<<<>>, <<>>, <<>>, <<>>, <<>>, <<>>>>))

\* How far past the preview length the longest text tried goes.
MaxExtra == 80

\* A review of n characters, every LfEvery-th of them a line feed.
LfEvery == 7
Review(n) == [k \in 1..n |-> IF k % LfEvery = 0 THEN LF ELSE "r"]

\* The review lengths tried: the texts built from them have 52, 119, 120,
\* 121 and 120 + MaxExtra characters.
ReviewLens == { 0, PreviewLen - TemplateLen - 1, PreviewLen - TemplateLen,
                PreviewLen - TemplateLen + 1, PreviewLen - TemplateLen + MaxExtra }

\* Rows of the Index Builder whose payloads the remote collection holds.
QueryRows ==
    { [k \in {KeChengNeiRongYuPingJia, KeChengShuXing} |->
         IF k = KeChengShuXing THEN t ELSE Review(n)]
      : n \in ReviewLens, t \in {"ZhuanYeKeCheng", "TiYuKe"} }

\* The payloads of the remote collection: the metadata entries of the build,
\* and a point without payload (None, read as {}).
EmptyPayload == <<>>
Payloads ==
    { MetadataEntry(parseDict(r)[1], parseDict(r)[2]) : r \in QueryRows }
    \cup { EmptyPayload }

\* The local faiss.index files tried: none, a damaged one, an index without
\* vectors, and one-vector indexes as the build writes them.
QueryIndexFiles ==
    { Absent, Partial, Written(<<>>) }
    \cup { Written(<<[of |-> parseDict(r)[1], len |-> ModelDim]>>) : r \in BuildRows }

QueryInit ==
    /\ qpc = "load"
    /\ faissFile \in QueryIndexFiles
    /\ localIndex = NoIndex
    /\ query_vector = <<>>
    /\ results = <<>>
    /\ searchCalls = 0
    /\ shown = <<>>
    /\ qerr = NoError

\* The script ends with RuntimeError(e).
QRaise(e) == qpc' = "failed" /\ qerr' = RuntimeError(e)

\* What the query client leaves alone: the build's state and parseDict's row.
QueryFrame ==
    /\ UNCHANGED buildVars
    /\ UNCHANGED normVars

\* index = faiss.read_index("faiss.index"), any exception re-raised
LoadIndex ==
    /\ qpc = "load"
    /\ IF faissFile.state = "written"
       THEN /\ localIndex' = [constructed |-> TRUE, d |-> ModelDim, vecs |-> faissFile.data]
            /\ qpc' = "reconstruct" /\ qerr' = qerr
       ELSE QRaise("read_index") /\ localIndex' = localIndex
    /\ UNCHANGED <<query_vector, results, searchCalls, shown>>
    /\ QueryFrame

\* index.reconstruct_n(0, 1)[0].tolist(), any exception re-raised
Reconstruct ==
    /\ qpc = "reconstruct"
    /\ IF Len(localIndex.vecs) >= 1
       THEN query_vector' = localIndex.vecs[1] /\ qpc' = "client" /\ qerr' = qerr
       ELSE QRaise("reconstruct_n") /\ query_vector' = query_vector
    /\ UNCHANGED <<localIndex, results, searchCalls, shown>>
    /\ QueryFrame

\* client = QdrantClient(url, api_key), any exception re-raised
NewClient ==
    /\ qpc = "client"
    /\ \/ qpc' = "search" /\ qerr' = qerr
       \/ QRaise("QdrantClient")
    /\ UNCHANGED <<localIndex, query_vector, results, searchCalls, shown>>
    /\ QueryFrame

\* client.search answering an empty result set when the request fails
Search_swallow ==
    /\ qpc = "search"
    /\ searchCalls' = searchCalls + 1
    /\ \/ \E rs \in SeqsUpTo({ [payload |-> p] : p \in Payloads }, Limit) :
            results' = rs /\ qpc' = "format" /\ qerr' = qerr
       \/ results' = <<>> /\ qpc' = "format" /\ qerr' = RuntimeError("search")
    /\ UNCHANGED <<localIndex, query_vector, shown>>
    /\ QueryFrame

\* results = client.search(collection_name, query_vector, limit=3), any
\* exception re-raised; the service answers at most limit points
Search ==
    /\ qpc = "search"
    /\ searchCalls' = searchCalls + 1
    /\ \/ \E rs \in SeqsUpTo({ [payload |-> p] : p \in Payloads }, Limit) :
            results' = rs /\ qpc' = "format" /\ qerr' = qerr
       \/ results' = results /\ QRaise("search")
    /\ UNCHANGED <<localIndex, query_vector, shown>>
    /\ QueryFrame

\* One iteration of for idx, result in enumerate(results, start=1)
FormatResult ==
    /\ qpc = "format"
    /\ Len(shown) < Len(results)
    /\ LET idx == Len(shown) + 1
       IN  shown' = Append(shown, ShowResult(idx, results[idx]))
    /\ UNCHANGED <<qpc, localIndex, query_vector, results, searchCalls, qerr>>
    /\ QueryFrame

\* The closing prints, after the last result
Finish ==
    /\ qpc = "format"
    /\ Len(shown) = Len(results)
    /\ qpc' = "done"
    /\ UNCHANGED <<localIndex, query_vector, results, searchCalls, shown, qerr>>
    /\ QueryFrame

-----------------------------------------------------------------------------
(* parseDict applied to one row *)

\* The rows tried, the empty mapping among them.
AllRows == UNION { RowsOver(tk, h) : tk \in KeySets, h \in BOOLEAN }

NormInit ==
    /\ nrow \in AllRows
    /\ nout = <<>>

\* text, category = parseDict(row_dict)
Normalize ==
    /\ nout = <<>>
    /\ nout' = parseDict(nrow)
    /\ nrow' = nrow
    /\ UNCHANGED buildVars
    /\ UNCHANGED queryVars

-----------------------------------------------------------------------------
(* The three programs *)

\* The query client at rest.
QueryIdle ==
    /\ qpc = "idle"
    /\ localIndex = NoIndex
    /\ query_vector = <<>>
    /\ results = <<>>
    /\ searchCalls = 0
    /\ shown = <<>>
    /\ qerr = NoError

\* No row given to parseDict.
NormIdle ==
    /\ nrow = <<>>
    /\ nout = <<>>

\* build_rag_database at rest, faiss.index apart.
BuildIdle ==
    /\ csvExists = FALSE
    /\ csvEncoding = "gbk"
    /\ csvRows = <<>>
    /\ embedding_dim = EmbeddingDimDefault
    /\ pc = "idle"
    /\ df = <<>>
    /\ i = 0
    /\ embeddings = <<>>
    /\ metadata = <<>>
    /\ embeddings_np = <<>>
    /\ index = NoIndex
    /\ err = "none"
    /\ embedCalls = 0
    /\ dirExists = TRUE
    /\ metaFile = Absent
    /\ faissFile0 = Absent
    /\ metaFile0 = Absent
    /\ reported = 0

\* A run of build_db.py
Init == BuildInit /\ QueryIdle /\ NormIdle

Next ==
    \/ CheckCsv
    \/ ReadCsv
    \/ LoopBody
    \/ VStack
    \/ NewIndex
    \/ IndexAdd
    \/ MakeDirs
    \/ WriteIndex
    \/ WriteMeta
    \/ Report

Spec == Init /\ [][Next]_vars

\* A run of push_cloud.py
InitQuery == QueryInit /\ BuildIdle /\ NormIdle

NextQuery ==
    \/ LoadIndex
    \/ Reconstruct
    \/ NewClient
    \/ Search
    \/ FormatResult
    \/ Finish

SpecQuery == InitQuery /\ [][NextQuery]_vars

\* parseDict on one row
InitNorm == NormInit /\ BuildIdle /\ faissFile = Absent /\ QueryIdle

NextNorm == Normalize

SpecNorm == InitNorm /\ [][NextNorm]_vars

-----------------------------------------------------------------------------
(* Properties of build_rag_database, checked under Spec *)

\* The text and the metadata entry of input row k.
RowText(k)  == parseDict(csvRows[k])[1]
RowEntry(k) == [text |-> parseDict(csvRows[k])[1], category |-> parseDict(csvRows[k])[2]]

\* C1: Positional alignment.  After every iteration of the build loop the
\* vector list and the metadata list have the same length, the number of
\* iterations done, and the vector and the entry at each position come from
\* the input row at that position; on completion the index, the written
\* faiss.index and the written metadata.json hold N positions, position k of
\* each coming from input row k.
C1_PositionalAlignment ==
    /\ Len(embeddings) = Len(metadata)
    /\ Len(embeddings) = i
    /\ \A k \in 1..Len(embeddings) :
         /\ embeddings[k].of = RowText(k)
         /\ metadata[k] = RowEntry(k)
    /\ pc = "done" =>
         /\ Len(index.vecs) = Len(csvRows)
         /\ Len(metadata) = Len(csvRows)
         /\ faissFile.state = "written" /\ Len(faissFile.data) = Len(csvRows)
         /\ metaFile.state = "written" /\ Len(metaFile.data) = Len(csvRows)
         /\ \A k \in 1..Len(csvRows) :
              /\ index.vecs[k].of = RowText(k)
              /\ faissFile.data[k].of = RowText(k)
              /\ metaFile.data[k] = RowEntry(k)

\* A build of three rows, not all alike, has completed.
C1_Witness ==
    /\ pc = "done"
    /\ Len(csvRows) >= 3
    /\ csvRows[1] # csvRows[2]
    /\ csvRows[2] # csvRows[3]

DimensionErrors == {"ValueError:dimension mismatch", "AssertionError:d"}

\* C2: Fail-fast build.  Once get_embedding has failed for a record, or a
\* dimension failure has occurred, the run is over and takes no further
\* step; neither output file differs from what it was when the run started;
\* after an embedding failure at record i+1 exactly i+1 calls of
\* get_embedding were made, so no later record was processed; and the lists
\* hold, for every earlier record and in order, the vector get_embedding
\* returned for it, nothing skipped and nothing put in its place.
C2_FailFast ==
    err \in {"EmbeddingFailure"} \cup DimensionErrors =>
      /\ pc = "failed"
      /\ ~ENABLED Next
      /\ faissFile = faissFile0
      /\ metaFile = metaFile0
      /\ err = "EmbeddingFailure" =>
           /\ i < Len(df)
           /\ embedCalls = i + 1
      /\ Len(embeddings) = i
      /\ Len(metadata) = i
      /\ \A k \in 1..i :
           /\ [raised |-> FALSE, vec |-> embeddings[k]]
                \in get_embedding(parseDict(df[k])[1], embedding_dim)
           /\ metadata[k].text = parseDict(df[k])[1]

\* get_embedding failed for the second of three records, over the files of
\* an earlier build.
C2_Witness ==
    /\ pc = "failed"
    /\ err = "EmbeddingFailure"
    /\ i = 1
    /\ Len(df) = 3
    /\ faissFile0 = Previous
    /\ metaFile0 = Previous

\* C3: Dimension check before index construction.  The index object is
\* constructed only if every produced vector has embedding_dim elements.
C3_DimensionCheckedBeforeIndex ==
    index.constructed =>
      \A k \in 1..Len(embeddings) : embeddings[k].len = embedding_dim

WriteErrors == {"OSError:makedirs", "OSError:faiss.index",
                "OSError:open metadata.json", "OSError:json.dump"}

\* C9: Build completion.  A run that has ended, on an input file that exists
\* and decodes, with no failed embedding call, every vector of the
\* configured dimension and no failed write, has ended successfully, both
\* files written and the record count N reported.
C9_BuildCompletes ==
    ( /\ pc \in {"done", "failed"}
      /\ csvExists
      /\ csvEncoding \in {"gbk", "utf-8"}
      /\ err # "EmbeddingFailure"
      /\ \A k \in 1..Len(embeddings) : embeddings[k].len = embedding_dim
      /\ err \notin WriteErrors )
    => /\ pc = "done"
       /\ faissFile.state = "written"
       /\ metaFile.state = "written"
       /\ reported = Len(csvRows)

MetaWriteErrors == {"OSError:open metadata.json", "OSError:json.dump"}

\* Nothing is written before all N records are in the index, and faiss.index
\* is written before metadata.json.
PersistenceOrder ==
    /\ (faissFile # faissFile0 \/ metaFile # metaFile0) =>
         /\ i = Len(csvRows)
         /\ Len(embeddings) = Len(csvRows)
         /\ Len(metadata) = Len(csvRows)
         /\ index.vecs = embeddings
    /\ metaFile # metaFile0 => faissFile = Written(index.vecs)

\* C10, as stated: the persistence order, and when the metadata write fails
\* the directory holds the new faiss.index with no metadata.json or with the
\* metadata.json of a previous build.
C10_AsStated ==
    /\ PersistenceOrder
    /\ (pc = "failed" /\ err \in MetaWriteErrors) =>
         /\ faissFile = Written(index.vecs)
         /\ metaFile \in {Absent, Previous}

\* C10, amended: the persistence order, and when the metadata write fails
\* the directory holds the new faiss.index and never the new metadata.json:
\* metadata.json is as it was before the run (absent, or of a previous
\* build) when open failed, and a file cut short when json.dump failed after
\* open had created or truncated it.
C10_PersistenceOrder ==
    /\ PersistenceOrder
    /\ (pc = "failed" /\ err \in MetaWriteErrors) =>
         /\ faissFile = Written(index.vecs)
         /\ metaFile.state # "written"
         /\ err = "OSError:open metadata.json" =>
              metaFile = metaFile0 /\ metaFile \in {Absent, Previous}
         /\ err = "OSError:json.dump" => metaFile = Partial

\* The run stopped between the two writes, over a previous build's metadata.
C10_Witness ==
    /\ pc = "failed"
    /\ err \in MetaWriteErrors
    /\ faissFile.state = "written"
    /\ metaFile0 = Previous

-----------------------------------------------------------------------------
(* Properties of the query client, checked under SpecQuery *)

\* The text of result k, as the client reads it.
ResultText(k) ==
    IF "text" \in DOMAIN results[k].payload
    THEN results[k].payload["text"] ELSE NoTextPlaceholder

\* The first PreviewLen characters of t, line feeds as spaces, are the first
\* characters of the snippet s.
PreviewPrefix(t, s) ==
    \A j \in 1..Len(t) :
      j <= PreviewLen => s[j] = (IF t[j] = LF THEN " " ELSE t[j])

\* C6, as stated: a text of more than 120 characters is shown as its first
\* 120 characters, line feeds replaced by spaces, followed by "..."; a text
\* of at most 120 characters is shown unmodified.
C6_AsStated ==
    \A k \in 1..Len(shown) :
      LET t == ResultText(k)
          s == shown[k].snippet
      IN  IF Len(t) > PreviewLen
          THEN /\ Len(s) = PreviewLen + 3
               /\ PreviewPrefix(t, s)
               /\ SubSeq(s, PreviewLen + 1, PreviewLen + 3) = <<".", ".", ".">>
          ELSE s = t

\* C6, amended: a text of more than 120 characters is shown as its first 120
\* characters, line feeds replaced by spaces, followed by "..."; a text of
\* at most 120 characters is shown whole, line feeds replaced by spaces,
\* with no marker.
C6_PreviewTruncation ==
    \A k \in 1..Len(shown) :
      LET t == ResultText(k)
          s == shown[k].snippet
      IN  IF Len(t) > PreviewLen
          THEN /\ Len(s) = PreviewLen + 3
               /\ PreviewPrefix(t, s)
               /\ SubSeq(s, PreviewLen + 1, PreviewLen + 3) = <<".", ".", ".">>
          ELSE /\ Len(s) = Len(t)
               /\ PreviewPrefix(t, s)

\* Texts of 120 and of 200 characters have been shown, in that order.
C6_Witness ==
    /\ Len(shown) >= 2
    /\ Len(ResultText(1)) = PreviewLen
    /\ Len(ResultText(2)) = PreviewLen + MaxExtra

\* C7: Every returned neighbor whose payload holds the category the build
\* wrote is shown with that category.
C7_CategoryShown ==
    \A k \in 1..Len(shown) :
      "category" \in DOMAIN results[k].payload =>
        shown[k].category = IntStr(results[k].payload["category"])

\* C8: Retrieval failure handling.  client.search is called at most once;
\* the run has failed exactly when it holds a RuntimeError carrying a cause;
\* an index that cannot be read or reconstructed fails the run at that
\* step; a failed run takes no further step and has shown no result entry.
C8_RetrievalFailure ==
    /\ searchCalls <= 1
    /\ (qerr # NoError) <=> (qpc = "failed")
    /\ (qpc \notin {"idle", "load"} /\ faissFile.state # "written") =>
         qerr = RuntimeError("read_index")
    /\ (qpc \notin {"idle", "load", "reconstruct"} /\ faissFile = Written(<<>>)) =>
         qerr = RuntimeError("reconstruct_n")
    /\ qpc = "failed" =>
         /\ qerr.type = "RuntimeError"
         /\ qerr.cause \in {"read_index", "reconstruct_n", "QdrantClient", "search"}
         /\ qerr.cause = "search" <=> searchCalls = 1
         /\ shown = <<>>
         /\ results = <<>>
         /\ ~ENABLED NextQuery
    /\ shown # <<>> => qerr = NoError /\ searchCalls = 1

\* The remote search failed.
C8_Witness ==
    /\ qpc = "failed"
    /\ qerr = RuntimeError("search")
    /\ searchCalls = 1

-----------------------------------------------------------------------------
(* Properties of parseDict, checked under SpecNorm *)

\* The documented code of each course-type label.
DocumentedCode(label) ==
    CASE label = "BuZhiDing" -> 0
      [] label = "TiYuKe" -> 1
      [] label = "TongShiXuanXiuKe(GongXuanKe)" -> 2
      [] label = "GongGongKe" -> 3
      [] label = "GongGongKe(GaoShu,XianDai,DaWuHeSiZhengKeDeng)" -> 3
      [] label = "GongGongBiXiuKe(GaoShu,XianDai,DaWuHeSiZhengKeDeng)" -> 3
      [] label = "ZhuanYeKeCheng" -> 4
      [] label = "TongShiBiXiuKe(DaoYinKe)" -> 5
      [] label = "TongShiBiXiuKe(DaoYin)" -> 5
      [] label = "DaoYinKe(ZiKeRenWenZhongGuoJingShen)" -> 5
      [] label = "YingYuKe" -> 6
      [] OTHER -> 0

\* C4: Category mapping exactness.  The category parseDict returns is the
\* documented code of the row's course type when that is a known label, and
\* 0 when it is any other value or the key is absent; it lies in 0..6.
C4_CategoryMapping ==
    nout # <<>> =>
      /\ nout[2] \in 0..6
      /\ nout[2] = (IF KeChengShuXing \in DOMAIN nrow
                    THEN DocumentedCode(nrow[KeChengShuXing]) ELSE 0)

\* parseDict has mapped one of the three public-course labels to 3.
C4_Witness ==
    /\ nout # <<>>
    /\ KeChengShuXing \in DOMAIN nrow
    /\ nrow[KeChengShuXing] = "GongGongBiXiuKe(GaoShu,XianDai,DaWuHeSiZhengKeDeng)"
    /\ nout[2] = 3

\* What slot k of the template holds for the row: the string of the row's
\* value, or the empty string when the row lacks the key.
Slot(k) ==
    IF TextKeys[k] \in DOMAIN nrow
    THEN (IF nrow[TextKeys[k]] = NaN THEN <<"n", "a", "n">> ELSE nrow[TextKeys[k]])
    ELSE <<>>

\* C5: Normalization totality.  For every row, the empty mapping included,
\* the text parseDict returns is the six-line template with, in the order
\* course name, teacher, content and review, attendance and coursework,
\* final assessment, grade, each slot holding the row's value or, when the
\* row lacks the field, the empty string.
C5_NormalizationTotality ==
    nout # <<>> =>
      nout[1] = QUERY_FMT[1] \o Slot(1) \o QUERY_FMT[2] \o Slot(2)
                \o QUERY_FMT[3] \o Slot(3) \o QUERY_FMT[4] \o Slot(4)
                \o QUERY_FMT[5] \o Slot(5) \o QUERY_FMT[6] \o Slot(6)
                \o QUERY_FMT[7]

\* parseDict has been applied to the empty mapping: the text is the bare
\* template.
C5_Witness ==
    /\ nout # <<>>
    /\ DOMAIN nrow = {}
    /\ Len(nout[1]) = TemplateLen

=============================================================================
